---- MODULE Spec2Model ----
(***************************************************************************)
(* VideoWise backend: the asynchronous job pipeline of backend/app.py and  *)
(* the summary composer of backend/video_processor.py.                     *)
(*                                                                         *)
(* The live cache is the module-level dict `jobs`, the durable store is    *)
(* the sqlite table `jobs`, a worker is one thread running                 *)
(* process_video_job.  The worker is modelled one statement at a time      *)
(* (its program counter names the source line about to run), because the   *)
(* request handlers read the live cache while the worker thread writes it. *)
(* A text is a sequence of words.                                          *)
(***************************************************************************)
EXTENDS Integers, Sequences, FiniteSets, TLC

\* ------------------------------------------------------------- bounds
\* Number of job identifiers (uuid4 values) a behaviour may draw.
MaxJobs == 2

JobIds == 1..MaxJobs
Users == {"alice", "bob"}

\* What the uploaded media file is: a file OpenCV cannot open, a file that
\* opens but yields no decodable frame, a file with decodable frames.
VideoKinds == {"unopenable", "noframes", "ok"}

\* Largest summary_length_words a request carries.
MaxTarget == 2

\* summary_length_words as the worker receives it: 0 stands for None
\* (the code tests it for truth, so None and 0 behave alike).
TargetLengths == 0..MaxTarget

\* One call of a generation provider: it raises, returns text that strips
\* to the empty string, or returns text.
ProviderOutcomes == {"raise", "empty", "text"}

\* extract_audio / transcribe_audio: the file has no audio track, the
\* extraction raises, the track holds no samples, the transcription raises,
\* the transcription is blank, or there is speech.
AudioOutcomes ==
    {"absent", "extract_error", "empty", "transcribe_error", "silent", "speech"}

\* Largest frame count of a video (CAP_PROP_FRAME_COUNT) and largest requested
\* number of frames (num_frames) that extract_keyframes is applied to.
MaxTotalFrames == 5
MaxNumFrames == 3

\* Longest text, in words and runs of whitespace, that the trim is applied to.
MaxRawLen == 5

VARIABLES
    jobs,          \* the live cache: job id -> entry            (app.py:71)
    db,            \* the durable jobs table: job id -> row      (app.py:50)
    files,         \* media files on disk: job id -> video kind  (app.py:372)
    wk,            \* the worker thread of each job id           (app.py:407)
    groq_client,   \* primary provider configured                (video_processor.py:63)
    gemini_model,  \* secondary provider configured              (video_processor.py:64)
    nextId,        \* next unused job identifier                 (app.py:375)
    resp,          \* the last request handled: who asked what, and the status code
    everDone,      \* history: job ids whose durable row was ever written done
    users,         \* the durable users table: user id -> profile (app.py:44)
    schema,        \* the tables of the database file and their columns (app.py:38)
    pure           \* the last call of a function of video_processor.py, on its own

vars == <<jobs, db, files, wk, groq_client, gemini_model, nextId, resp, everDone,
          users, schema, pure>>

\* ------------------------------------------------------------- texts
NoAudioTrack == <<"No", "audio", "track", "found", "in", "video.">>
NoAudioContent == <<"No", "audio", "content", "detected.">>
NoSpeech == <<"No", "speech", "detected", "in", "audio.">>
TranscriptionFailed == <<"Audio", "transcription", "failed.">>
SpeechText == <<"hello", "world">>
GroqText == <<"g1", "g2", "g3">>
GeminiText == <<"m1", "m2", "m3">>
EmptyText == <<>>

\* A summary: its words and whether the ellipsis marker "..." ends it.
Plain(words) == [words |-> words, ellipsis |-> FALSE]

NonEmpty(summary) == Len(summary.words) > 0 \/ summary.ellipsis

\* `"No audio" not in text`
ContainsNoAudio(text) ==
    \E i \in 1..(Len(text) - 1) : text[i] = "No" /\ text[i + 1] = "audio"

Take(s, k) == IF k <= 0 THEN <<>> ELSE SubSeq(s, 1, IF k < Len(s) THEN k ELSE Len(s))

\* ------------------------------------------------------------- process_video
\* extract_keyframes: the frames read from a video that opened.
ExtractKeyframes(kind) == IF kind = "ok" THEN <<"f1", "f2">> ELSE <<>>

\* The frame stored at a position of the video file.
VideoFrames == <<"f1", "f2", "f3", "f4">>
FrameAt(idx) == IF idx < Len(VideoFrames) THEN VideoFrames[idx + 1] ELSE "blank"

\* extract_keyframes sampling int(i * total_frames / num_frames) for every video.
FrameIndicesAlwaysSpaced(total_frames, num_frames) ==
    [i \in 1..num_frames |-> ((i - 1) * total_frames) \div num_frames]

\* frame_indices of extract_keyframes (lines 108-111), positions counted from 0.
FrameIndices(total_frames, num_frames) ==
    IF total_frames < num_frames
    THEN [i \in 1..total_frames |-> i - 1]
    ELSE [i \in 1..num_frames |-> ((i - 1) * total_frames) \div num_frames]

\* The read loop of extract_keyframes (lines 113-119): a frame is kept when
\* cap.read() returns ret = True, which it does at the positions in `readable`.
RECURSIVE ReadAll(_, _)
ReadAll(indices, readable) ==
    IF Len(indices) = 0 THEN <<>>
    ELSE (IF Head(indices) \in readable THEN <<FrameAt(Head(indices))>> ELSE <<>>)
         \o ReadAll(Tail(indices), readable)

ReadFrames(total_frames, num_frames, readable) ==
    ReadAll(FrameIndices(total_frames, num_frames), readable)

\* caption_frame, with the "Frame i: " label split off: the scene description,
\* or the fixed text when the captioning model raises.
CaptionFrame(frame) ==
    CASE frame = "f1" -> "street"
      [] frame = "f2" -> "market"
      [] frame = "f3" -> "beach"
      [] frame = "f4" -> "harbour"
      [] OTHER -> "Unable to describe this frame."

\* analyze_visual_content numbering its captions from 0.
AnalyzeVisualContentFromZero(frames) ==
    [i \in 1..Len(frames) |-> [frame |-> i - 1, scene |-> CaptionFrame(frames[i])]]

\* analyze_visual_content: one caption record per frame, in frame order.
AnalyzeVisualContent(frames) ==
    [i \in 1..Len(frames) |-> [frame |-> i, scene |-> CaptionFrame(frames[i])]]

\* ocr_reader.readtext on a frame: the detections with their confidence in
\* hundredths; a frame the reader cannot process has none (the except branch
\* of extract_text_from_frame returns []).
Readtext(frame) ==
    CASE frame = "f1" -> <<[text |-> "SALE", confidence |-> 90]>>
      [] frame = "f2" -> <<[text |-> "SALE", confidence |-> 80],
                           [text |-> "OPEN", confidence |-> 60],
                           [text |-> "smudge", confidence |-> 30]>>
      [] frame = "f4" -> <<[text |-> "EXIT", confidence |-> 50]>>
      [] OTHER -> <<>>

\* The confidence a detection must exceed, 0.5 in hundredths (line 197).
MinConfidence == 50

\* extract_text_from_frame (lines 193-201): the texts read with confidence
\* above 0.5, in reading order.
ExtractTextFromFrame(frame) ==
    LET kept == SelectSeq(Readtext(frame), LAMBDA d : d.confidence > MinConfidence)
    IN [i \in 1..Len(kept) |-> kept[i].text]

RECURSIVE OcrTexts(_)
\* all_ocr_texts of analyze_visual_content (lines 206, 212-214, 219): the
\* texts of every frame appended in frame order.
OcrTexts(frames) ==
    IF Len(frames) = 0 THEN <<>>
    ELSE ExtractTextFromFrame(Head(frames)) \o OcrTexts(Tail(frames))

VisualScenes(captions) == [i \in 1..Len(captions) |-> captions[i].scene]

\* extract_audio: audio_data, None when there is no track or anything raised.
ExtractAudio(audio) ==
    IF audio \in {"absent", "extract_error"} THEN "none"
    ELSE IF audio = "empty" THEN "empty" ELSE "samples"

\* transcribe_audio
TranscribeAudio(audio_data, audio) ==
    IF audio_data = "empty" THEN NoAudioContent
    ELSE CASE audio = "transcribe_error" -> TranscriptionFailed
           [] audio = "silent" -> NoSpeech
           [] OTHER -> SpeechText

\* Lines 443-449 of process_video.
Transcription(audio) ==
    LET audio_data == ExtractAudio(audio)
    IN IF audio_data # "none" THEN TranscribeAudio(audio_data, audio) ELSE NoAudioTrack

\* The audio stage with the two `except Exception` clauses left out.
AudioStageUncaught(audio) ==
    IF audio \in {"extract_error", "transcribe_error"}
    THEN [raised |-> TRUE, transcription |-> EmptyText]
    ELSE [raised |-> FALSE, transcription |-> Transcription(audio)]

\* The audio stage as process_video sees it: both functions catch what is
\* raised inside them.
AudioStage(audio) == [raised |-> FALSE, transcription |-> Transcription(audio)]

\* get_summary_prompt: the two dictionaries, a template being named by the
\* role its first sentence gives the model and by its closing request.
FormatInstructions ==
    [paragraph |-> "Write a flowing narrative summary in paragraph form.",
     bullet |-> "Write the summary as a bulleted list with clear, concise points.",
     timeline |-> "Write the summary in chronological order, organized by time segments.",
     chapters |-> "Divide the summary into clear chapters or sections with headings.",
     highlights |-> "Write only the key highlights and most important moments, be very concise."]

BasePrompts ==
    [default |-> <<"expert video summarizer", "Write a comprehensive summary:">>,
     professional |-> <<"professional business analyst",
                        "Write a professional business summary:">>,
     commercial |-> <<"marketing copywriter", "Write a commercial advertisement summary:">>,
     educational |-> <<"educational content specialist", "Write an educational summary:">>,
     casual |-> <<"friendly content creator", "Write a casual, friendly summary:">>,
     technical |-> <<"technical documentation specialist", "Write a technical summary:">>]

\* The style and format values a request carries: the keys, and strings that
\* are no key (the keys are case-sensitive).
StyleValues == (DOMAIN BasePrompts) \cup {"foo", "", "Technical"}
FormatValues == (DOMAIN FormatInstructions) \cup {"foo", "", "bullets"}

\* dict.get(key, default)
Get(dict, key, default) == IF key \in DOMAIN dict THEN dict[key] ELSE default

\* get_summary_prompt subscripting its dictionaries: KeyError on a value that
\* is no key.
GetSummaryPromptKeyError(style, format_type) ==
    IF style \in DOMAIN BasePrompts /\ format_type \in DOMAIN FormatInstructions
    THEN [raised |-> FALSE,
          format_instruction |-> FormatInstructions[format_type],
          template |-> BasePrompts[style]]
    ELSE [raised |-> TRUE, format_instruction |-> "", template |-> <<>>]

GetSummaryPrompt(style, format_type) ==
    [raised |-> FALSE,
     format_instruction |-> Get(FormatInstructions, format_type,
                                FormatInstructions["paragraph"]),
     template |-> Get(BasePrompts, style, BasePrompts["default"])]

\* The text a provider call leaves in `summary`: None or "" are both falsy.
ProviderText(outcome, text) == IF outcome = "text" THEN text ELSE EmptyText

\* generate_summary's own fallback (lines 409-413).
FallbackSummary(transcription, scenes) ==
    <<"This", "video", "contains:">>
    \o (IF Len(transcription) > 0 THEN transcription ELSE <<"visual", "content">>)
    \o (IF Len(scenes) > 0 THEN <<"Key", "scenes", "include:">> \o Take(scenes, 3)
        ELSE <<>>)

\* The trim of lines 416-420.
TrimSummary(words, n) ==
    IF n # 0 /\ Len(words) > 0 /\ Len(words) > n
    THEN [words |-> Take(words, n), ellipsis |-> TRUE]
    ELSE Plain(words)

\* The same lines on the string itself.  A string is a sequence of tokens, a
\* token being a word or a run of whitespace; `"..."` is glued to the token
\* before it.
Whitespace == {" ", "\n"}
Words == {"a", "b"}

RawTexts ==
    {s \in UNION {[1..k -> Words \cup Whitespace] : k \in 0..MaxRawLen} :
        \A i \in 1..(Len(s) - 1) : s[i] \in Whitespace \/ s[i + 1] \in Whitespace}

IsWord(token) == token \notin Whitespace

\* str.split()
Split(raw) == SelectSeq(raw, IsWord)

\* ' '.join(words)
RECURSIVE Join(_)
Join(words) ==
    IF Len(words) <= 1 THEN words
    ELSE <<Head(words), " ">> \o Join(Tail(words))

\* The trim that also cuts a summary of exactly the requested length.
TrimTextAtTarget(raw, n) ==
    IF n # 0 /\ Len(raw) > 0
    THEN LET words == Split(raw)
         IN IF Len(words) >= n
            THEN Join(Take(words, n)) \o <<"...">>
            ELSE raw
    ELSE raw

TrimText(raw, n) ==
    IF n # 0 /\ Len(raw) > 0
    THEN LET words == Split(raw)
         IN IF Len(words) > n
            THEN Join(Take(words, n)) \o <<"...">>
            ELSE raw
    ELSE raw

\* generate_summary without its fallback of lines 409-413.
GenerateSummaryNoFallback(transcription, captions, n, groqOut, geminiOut) ==
    LET s1 == IF groq_client THEN ProviderText(groqOut, GroqText) ELSE EmptyText
        s2 == IF Len(s1) = 0 /\ gemini_model THEN ProviderText(geminiOut, GeminiText)
              ELSE s1
    IN TrimSummary(s2, n)

\* generate_summary asking the secondary provider before the primary one.
GenerateSummaryGeminiFirst(transcription, captions, n, groqOut, geminiOut) ==
    LET scenes == VisualScenes(captions)
        s1 == IF gemini_model THEN ProviderText(geminiOut, GeminiText) ELSE EmptyText
        s2 == IF Len(s1) = 0 /\ groq_client THEN ProviderText(groqOut, GroqText)
              ELSE s1
        s3 == IF Len(s2) = 0 THEN FallbackSummary(transcription, scenes) ELSE s2
    IN TrimSummary(s3, n)

\* The provider calls generate_summary makes, in the order it makes them
\* (lines 380-406).
ProviderCalls(groqOut, geminiOut) ==
    LET s1 == IF groq_client THEN ProviderText(groqOut, GroqText) ELSE EmptyText
    IN (IF groq_client THEN <<"groq">> ELSE <<>>)
       \o (IF Len(s1) = 0 /\ gemini_model THEN <<"gemini">> ELSE <<>>)

GenerateSummary(transcription, captions, n, groqOut, geminiOut) ==
    LET scenes == VisualScenes(captions)
        s1 == IF groq_client THEN ProviderText(groqOut, GroqText) ELSE EmptyText
        s2 == IF Len(s1) = 0 /\ gemini_model THEN ProviderText(geminiOut, GeminiText)
              ELSE s1
        s3 == IF Len(s2) = 0 THEN FallbackSummary(transcription, scenes) ELSE s2
    IN TrimSummary(s3, n)

\* process_video's summary when no provider is configured (lines 467-478).
NoProviderSummary(transcription, captions) ==
    LET scenes == Take(VisualScenes(captions), 3)
    IN Plain(<<"This", "video", "presents", "content", "covering", "multiple", "aspects.">>
             \o (IF Len(transcription) > 0 /\ ~ContainsNoAudio(transcription)
                 THEN <<"Audio", "narration", "discusses:">> \o transcription \o <<"...">>
                 ELSE <<>>)
             \o (IF Len(scenes) > 0 THEN <<"Visually", "shows:">> \o scenes ELSE <<>>))

ErrorResults ==
    [status |-> "error", audio_transcription |-> EmptyText,
     frame_captions |-> <<>>, final_summary |-> Plain(EmptyText)]

\* The calls of the audio stage (lines 443-445): transcribe_audio is called
\* when extract_audio returned data.
AudioCalls(audio) ==
    IF ExtractAudio(audio) # "none"
    THEN <<"extract_audio", "transcribe_audio">>
    ELSE <<"extract_audio">>

\* process_video: what it returns or raises, and `stages`, the stages it ran
\* in the order it ran them, each one a call that returns before the next
\* statement runs.
ProcessVideo(kind, audio, n, groqOut, geminiOut) ==
    IF kind = "unopenable"
    THEN [raised |-> TRUE, reason |-> "Could not open video", results |-> ErrorResults,
          stages |-> <<"extract_keyframes">>]
    ELSE LET frames == ExtractKeyframes(kind) IN
         IF Len(frames) = 0
         THEN [raised |-> FALSE, reason |-> "", results |-> ErrorResults,
               stages |-> <<"extract_keyframes">>]
         ELSE LET stage == AudioStage(audio) IN
         IF stage.raised
         THEN [raised |-> TRUE, reason |-> "audio processing failed",
               results |-> ErrorResults,
               stages |-> <<"extract_keyframes", "extract_audio">>]
         ELSE LET transcription == stage.transcription
                  captions == AnalyzeVisualContent(frames)
                  summary == IF groq_client \/ gemini_model
                             THEN GenerateSummary(transcription, captions, n,
                                                  groqOut, geminiOut)
                             ELSE NoProviderSummary(transcription, captions)
              IN [raised |-> FALSE, reason |-> "",
                  stages |-> <<"extract_keyframes">> \o AudioCalls(audio)
                             \o <<"analyze_visual_content", "final_summary">>,
                  results |-> [status |-> "completed",
                               audio_transcription |-> transcription,
                               frame_captions |-> captions,
                               final_summary |-> summary]]

\* ------------------------------------------------------------- schema
\* The database file: a sequence of tables, each a name and its columns in
\* order.  A statement gives the tables it leaves and whether it raised.
UsersColumns ==
    <<"id", "name", "email", "password_hash", "bio", "role", "expertise",
      "summary_preferences", "language", "created_at">>

JobsColumns ==
    <<"id", "user_id", "status", "progress", "step", "video_path", "num_frames",
      "summary_style", "summary_length_words", "metadata", "result",
      "created_at", "updated_at">>

HasTable(tables, name) == \E i \in 1..Len(tables) : tables[i].name = name

HasColumn(tables, name, column) ==
    \E i \in 1..Len(tables) :
        /\ tables[i].name = name
        /\ \E k \in 1..Len(tables[i].columns) : tables[i].columns[k] = column

\* CREATE TABLE name (...): "table already exists" when it does.
CreateTable(tables, name, columns) ==
    IF HasTable(tables, name)
    THEN [raised |-> TRUE, tables |-> tables]
    ELSE [raised |-> FALSE,
          tables |-> Append(tables, [name |-> name, columns |-> columns])]

\* CREATE TABLE IF NOT EXISTS name (...)
CreateTableIfNotExists(tables, name, columns) ==
    IF HasTable(tables, name)
    THEN [raised |-> FALSE, tables |-> tables]
    ELSE [raised |-> FALSE,
          tables |-> Append(tables, [name |-> name, columns |-> columns])]

\* ALTER TABLE name ADD COLUMN column: "no such table", "duplicate column name".
AlterTableAddColumn(tables, name, column) ==
    IF ~HasTable(tables, name) \/ HasColumn(tables, name, column)
    THEN [raised |-> TRUE, tables |-> tables]
    ELSE [raised |-> FALSE,
          tables |-> [i \in 1..Len(tables) |->
                         IF tables[i].name = name
                         THEN [tables[i] EXCEPT !.columns = Append(@, column)]
                         ELSE tables[i]]]

\* init_db: both statements run in order; an exception leaves the function.
InitDb(tables) ==
    LET u == CreateTableIfNotExists(tables, "users", UsersColumns)
        j == CreateTableIfNotExists(u.tables, "jobs", JobsColumns)
    IN IF u.raised THEN u ELSE j

\* try: ALTER TABLE jobs ADD COLUMN summary_format TEXT / except: pass
AddSummaryFormat(tables) ==
    [raised |-> FALSE,
     tables |-> AlterTableAddColumn(tables, "jobs", "summary_format").tables]

\* What a statement does to `schema`, which remembers an escaped exception.
Ran(statement) == [tables |-> statement.tables, raised |-> schema.raised \/ statement.raised]

\* ------------------------------------------------------------- state
\* user_profile is the thread's argument, composed_with the profile
\* process_video was called with ("none" before the call), stages the stages
\* that call ran.
NoWorker ==
    [pc |-> "none", n |-> 0, results |-> <<>>, exc |-> "",
     user_profile |-> "none", composed_with |-> "none", stages |-> <<>>]

\* The fields of an HTTP answer; a field the answer does not carry is blank.
NoResp == [kind |-> "none", user |-> "", job |-> 0, code |-> 0,
           status |-> "", progress |-> 0, step |-> "", eta |-> 0, payload |-> <<>>]

\* No function of video_processor.py has been called on its own.
Idle == [fn |-> "idle", in |-> <<>>, out |-> <<>>]

\* What `resp` keeps of an answer.
Brief(r) == [kind |-> r.kind, user |-> r.user, job |-> r.job, code |-> r.code]

Init ==
    /\ jobs = <<>>
    /\ db = <<>>
    /\ files = <<>>
    /\ wk = [j \in JobIds |-> NoWorker]
    /\ groq_client \in BOOLEAN
    /\ gemini_model \in BOOLEAN
    /\ nextId = 1
    /\ resp = Brief(NoResp)
    /\ everDone = {}
    /\ users = [u \in Users |-> "p0"]
    /\ schema = [tables |-> InitDb(<<>>).tables, raised |-> FALSE]
    /\ pure = Idle

Put(f, k, v) == [x \in (DOMAIN f) \cup {k} |-> IF x = k THEN v ELSE f[x]]
Drop(f, k) == [x \in (DOMAIN f) \ {k} |-> f[x]]

\* ------------------------------------------------------------- durable store
\* `SELECT ... FROM jobs WHERE id = ? AND user_id = ?` + fetchone():
\* the row as a sequence of length 0 or 1.  SelectJobAnyUser is the query
\* without the owner comparison.
SelectJobAnyUser(job_id, user_id) ==
    IF job_id \in DOMAIN db THEN <<db[job_id]>> ELSE <<>>

SelectJob(job_id, user_id) ==
    IF job_id \in DOMAIN db /\ db[job_id].user_id = user_id
    THEN <<db[job_id]>> ELSE <<>>

\* f'Error: {str(e)}'
ErrorStep(reason) ==
    CASE reason = "Could not open video" -> "Error: Could not open video"
      [] reason = "database write failed" -> "Error: database write failed"
      [] reason = "file removal failed" -> "Error: file removal failed"
      [] OTHER -> "Error: "

\* ------------------------------------------------------------- the worker
Goto(j, pc) == wk' = [wk EXCEPT ![j].pc = pc]

Raise(j, reason) == wk' = [wk EXCEPT ![j].pc = "l317", ![j].exc = reason]

L282(j) ==
    /\ wk[j].pc = "l282"
    /\ jobs' = [jobs EXCEPT ![j].status = "processing"]
    /\ Goto(j, "l283")
    /\ UNCHANGED <<db, files, groq_client, gemini_model, nextId, resp, everDone,
                 users, schema, pure>>

L283(j) ==
    /\ wk[j].pc = "l283"
    /\ jobs' = [jobs EXCEPT ![j].progress = 10]
    /\ Goto(j, "l284")
    /\ UNCHANGED <<db, files, groq_client, gemini_model, nextId, resp, everDone,
                 users, schema, pure>>

\* Line 284 followed by a write of the stage to the durable row.
L284WriteThrough(j) ==
    /\ wk[j].pc = "l284"
    /\ jobs' = [jobs EXCEPT ![j].step = "Extracting frames"]
    /\ db' = [db EXCEPT ![j].status = "processing", ![j].progress = 10,
                        ![j].step = "Extracting frames"]
    /\ Goto(j, "l287")
    /\ UNCHANGED <<files, groq_client, gemini_model, nextId, resp, everDone,
                   users, schema, pure>>

L284(j) ==
    /\ wk[j].pc = "l284"
    /\ jobs' = [jobs EXCEPT ![j].step = "Extracting frames"]
    /\ Goto(j, "l287")
    /\ UNCHANGED <<db, files, groq_client, gemini_model, nextId, resp, everDone,
                 users, schema, pure>>

\* The profile read from the users table when the summary is composed.
ProfileReadLive(j) == users[jobs[j].user_id]

\* `user_profile=user_profile` (line 294): the thread's argument.
ProfilePassed(j) == wk[j].user_profile

\* results = video_processor.process_video(...)
L287(j, Audio, Outcomes) ==
    /\ wk[j].pc = "l287"
    /\ \E audio \in Audio, groqOut \in Outcomes, geminiOut \in Outcomes :
          LET r == ProcessVideo(files[j], audio, wk[j].n, groqOut, geminiOut)
          IN IF r.raised
             THEN wk' = [wk EXCEPT ![j].pc = "l317", ![j].exc = r.reason,
                                   ![j].composed_with = ProfilePassed(j),
                                   ![j].stages = r.stages]
             ELSE wk' = [wk EXCEPT ![j].pc = "l298", ![j].results = <<r.results>>,
                                   ![j].composed_with = ProfilePassed(j),
                                   ![j].stages = r.stages]
    /\ UNCHANGED <<jobs, db, files, groq_client, gemini_model, nextId, resp, everDone,
                 users, schema, pure>>

\* Line 298 assigning through a status shared by all the entries of the cache.
L298SharedStatus(j) ==
    /\ wk[j].pc = "l298"
    /\ jobs' = [k \in DOMAIN jobs |-> [jobs[k] EXCEPT !.status = "done"]]
    /\ Goto(j, "l299")
    /\ UNCHANGED <<db, files, groq_client, gemini_model, nextId, resp, everDone,
                   users, schema, pure>>

L298(j) ==
    /\ wk[j].pc = "l298"
    /\ jobs' = [jobs EXCEPT ![j].status = "done"]
    /\ Goto(j, "l299")
    /\ UNCHANGED <<db, files, groq_client, gemini_model, nextId, resp, everDone,
                 users, schema, pure>>

L299(j) ==
    /\ wk[j].pc = "l299"
    /\ jobs' = [jobs EXCEPT ![j].progress = 100]
    /\ Goto(j, "l300")
    /\ UNCHANGED <<db, files, groq_client, gemini_model, nextId, resp, everDone,
                 users, schema, pure>>

L300(j) ==
    /\ wk[j].pc = "l300"
    /\ jobs' = [jobs EXCEPT ![j].step = "Complete"]
    /\ Goto(j, "l301")
    /\ UNCHANGED <<db, files, groq_client, gemini_model, nextId, resp, everDone,
                 users, schema, pure>>

\* Line 301 with the cleanup of lines 313-314 moved in front of the durable
\* write.
L301ThenCleanup(j) ==
    /\ wk[j].pc = "l301"
    /\ jobs' = [jobs EXCEPT ![j].result = wk[j].results]
    /\ files' = Drop(files, j)
    /\ Goto(j, "l306")
    /\ UNCHANGED <<db, groq_client, gemini_model, nextId, resp, everDone,
                   users, schema, pure>>

L301(j) ==
    /\ wk[j].pc = "l301"
    /\ jobs' = [jobs EXCEPT ![j].result = wk[j].results]
    /\ Goto(j, "l306")
    /\ UNCHANGED <<db, files, groq_client, gemini_model, nextId, resp, everDone,
                 users, schema, pure>>

\* UPDATE jobs SET status, progress, step, result WHERE id = ?; commit.
\* The statement commits as a whole or raises and leaves the row as it was.
L306(j) ==
    /\ wk[j].pc = "l306"
    /\ \E ok \in BOOLEAN :
          IF ok
          THEN /\ db' = [db EXCEPT ![j].status = "done", ![j].progress = 100,
                                   ![j].step = "Complete",
                                   ![j].result = wk[j].results]
               /\ everDone' = everDone \cup {j}
               /\ Goto(j, "l313")
          ELSE /\ Raise(j, "database write failed")
               /\ UNCHANGED <<db, everDone>>
    /\ UNCHANGED <<jobs, files, groq_client, gemini_model, nextId, resp,
                 users, schema, pure>>

\* The cleanup with a failed removal swallowed instead of raised.
L313AlwaysFinishes(j) ==
    /\ wk[j].pc = "l313"
    /\ \E ok \in BOOLEAN :
          /\ files' = IF ok /\ j \in DOMAIN files THEN Drop(files, j) ELSE files
          /\ Goto(j, "finished")
    /\ UNCHANGED <<jobs, db, groq_client, gemini_model, nextId, resp, everDone,
                 users, schema, pure>>

\* if os.path.exists(video_path): os.remove(video_path)
L313(j) ==
    /\ wk[j].pc = "l313"
    /\ \E ok \in BOOLEAN :
          IF j \in DOMAIN files
          THEN IF ok
               THEN files' = Drop(files, j) /\ Goto(j, "finished")
               ELSE UNCHANGED files /\ Raise(j, "file removal failed")
          ELSE UNCHANGED files /\ Goto(j, "finished")
    /\ UNCHANGED <<jobs, db, groq_client, gemini_model, nextId, resp, everDone,
                 users, schema, pure>>

\* except Exception as e:
L317(j) ==
    /\ wk[j].pc = "l317"
    /\ jobs' = [jobs EXCEPT ![j].status = "failed"]
    /\ Goto(j, "l318")
    /\ UNCHANGED <<db, files, groq_client, gemini_model, nextId, resp, everDone,
                 users, schema, pure>>

\* Line 318 with a label that leaves the reason out.
L318WithoutReason(j) ==
    /\ wk[j].pc = "l318"
    /\ jobs' = [jobs EXCEPT ![j].step = "Error"]
    /\ Goto(j, "l321")
    /\ UNCHANGED <<db, files, groq_client, gemini_model, nextId, resp, everDone,
                   users, schema, pure>>

L318(j) ==
    /\ wk[j].pc = "l318"
    /\ jobs' = [jobs EXCEPT ![j].step = ErrorStep(wk[j].exc)]
    /\ Goto(j, "l321")
    /\ UNCHANGED <<db, files, groq_client, gemini_model, nextId, resp, everDone,
                 users, schema, pure>>

\* UPDATE jobs SET status, step WHERE id = ?; commit.  When it raises, the
\* exception leaves the thread, which ends.
L321(j) ==
    /\ wk[j].pc = "l321"
    /\ \E ok \in BOOLEAN :
          db' = IF ok
                THEN [db EXCEPT ![j].status = "failed",
                                ![j].step = ErrorStep(wk[j].exc)]
                ELSE db
    /\ Goto(j, "finished")
    /\ UNCHANGED <<jobs, files, groq_client, gemini_model, nextId, resp, everDone,
                 users, schema, pure>>

Worker(j, Audio, Outcomes) ==
    \/ L282(j) \/ L283(j) \/ L284(j) \/ L287(j, Audio, Outcomes)
    \/ L298(j) \/ L299(j) \/ L300(j) \/ L301(j)
    \/ L306(j) \/ L313(j)
    \/ L317(j) \/ L318(j) \/ L321(j)

\* ------------------------------------------------------------- submission
SubmitResp(kind, user, job, code) ==
    [kind |-> kind, user |-> user, job |-> job, code |-> code]

\* Lines 353-366 / 461-474: the handler selects expertise and
\* summary_preferences of the user's row and builds a dict of its own.
UserProfile(user) == users[user]

\* The handler starting the thread before the INSERT, so that the thread
\* runs whether or not the row was written.
CreateJobThreadFirst(kind, user, video, n) ==
    /\ nextId <= MaxJobs
    /\ files' = Put(files, nextId, video)
    /\ jobs' = Put(jobs, nextId,
                   [user_id |-> user, status |-> "queued", progress |-> 0,
                    step |-> "Queued", result |-> <<>>, n |-> n])
    /\ nextId' = nextId + 1
    /\ schema' = Ran(AddSummaryFormat(schema.tables))
    /\ wk' = [wk EXCEPT ![nextId] = [pc |-> "l282", n |-> n,
                                     results |-> <<>>, exc |-> "",
                                     user_profile |-> UserProfile(user),
                                     composed_with |-> "none",
                                     stages |-> <<>>]]
    /\ \E ok \in BOOLEAN :
          IF ok
          THEN /\ db' = Put(db, nextId,
                            [user_id |-> user, status |-> "queued", progress |-> 0,
                             step |-> "Queued", result |-> <<>>])
               /\ resp' = SubmitResp(kind, user, nextId, 202)
          ELSE /\ UNCHANGED db
               /\ resp' = SubmitResp(kind, user, 0, 500)
    /\ UNCHANGED <<groq_client, gemini_model, everDone, users, pure>>

\* Lines 374-414 / 489-529: the live-cache entry, the durable insert and the
\* thread start.  A failed insert raises past the thread start into the
\* handler's `except`, which answers 500.
CreateJob(kind, user, video, n) ==
    /\ nextId <= MaxJobs
    /\ files' = Put(files, nextId, video)
    /\ jobs' = Put(jobs, nextId,
                   [user_id |-> user, status |-> "queued", progress |-> 0,
                    step |-> "Queued", result |-> <<>>, n |-> n])
    /\ nextId' = nextId + 1
    /\ schema' = Ran(AddSummaryFormat(schema.tables))
    /\ \E ok \in BOOLEAN :
          IF ok /\ HasColumn(schema'.tables, "jobs", "summary_format")
          THEN /\ db' = Put(db, nextId,
                            [user_id |-> user, status |-> "queued", progress |-> 0,
                             step |-> "Queued", result |-> <<>>])
               /\ wk' = [wk EXCEPT ![nextId] = [pc |-> "l282", n |-> n,
                                                results |-> <<>>, exc |-> "",
                                                user_profile |-> UserProfile(user),
                                                composed_with |-> "none",
                                                stages |-> <<>>]]
               /\ resp' = SubmitResp(kind, user, nextId, 202)
          ELSE /\ UNCHANGED <<db, wk>>
               /\ resp' = SubmitResp(kind, user, 0, 500)
    /\ UNCHANGED <<groq_client, gemini_model, everDone, users, pure>>

\* A handler that registers the job in the live cache before it finds the
\* request wanting.
RejectAfterRegistering(kind, user) ==
    /\ nextId <= MaxJobs
    /\ jobs' = Put(jobs, nextId,
                   [user_id |-> user, status |-> "queued", progress |-> 0,
                    step |-> "Queued", result |-> <<>>, n |-> 0])
    /\ nextId' = nextId + 1
    /\ resp' = SubmitResp(kind, user, 0, 400)
    /\ UNCHANGED <<db, files, wk, groq_client, gemini_model, everDone,
                   users, schema, pure>>

\* The early returns of lines 332-337 and 451-452, and the `except` around the
\* download (lines 486-487): a 400 answer and nothing else.
Reject(kind, user) ==
    /\ resp' = SubmitResp(kind, user, 0, 400)
    /\ UNCHANGED <<jobs, db, files, wk, groq_client, gemini_model, nextId, everDone,
                 users, schema, pure>>

\* POST /videos/upload
upload_video(user, Lengths) ==
    \E hasFile \in BOOLEAN :
        IF ~hasFile
        THEN Reject("upload", user)
        ELSE \E video \in VideoKinds, n \in Lengths :
                 CreateJob("upload", user, video, n)

\* POST /videos/from-url
summarize_from_url(user, Lengths) ==
    \E hasUrl \in BOOLEAN, downloaded \in BOOLEAN :
        IF ~hasUrl \/ ~downloaded
        THEN Reject("from-url", user)
        ELSE \E video \in VideoKinds, n \in Lengths :
                 CreateJob("from-url", user, video, n)

\* ------------------------------------------------------------- queries
\* get_job_status answering from the row alone.
GetJobStatusFromRow(user_id, job_id) ==
    LET job == SelectJob(job_id, user_id)
        base == [NoResp EXCEPT !.kind = "status", !.user = user_id, !.job = job_id]
    IN IF Len(job) = 0
       THEN [base EXCEPT !.code = 404]
       ELSE LET status == job[1].status
                progress == job[1].progress
                eta == IF status = "processing" THEN (100 - progress) * 2 ELSE 0
            IN [base EXCEPT !.code = 200, !.status = status, !.progress = progress,
                            !.step = job[1].step, !.eta = eta]

\* GET /videos/status/<job_id>
GetJobStatus(user_id, job_id) ==
    LET job == SelectJob(job_id, user_id)
        base == [NoResp EXCEPT !.kind = "status", !.user = user_id, !.job = job_id]
    IN IF Len(job) = 0
       THEN [base EXCEPT !.code = 404]
       ELSE LET live == job_id \in DOMAIN jobs
                status == IF live THEN jobs[job_id].status ELSE job[1].status
                progress == IF live THEN jobs[job_id].progress ELSE job[1].progress
                step == IF live THEN jobs[job_id].step ELSE job[1].step
                eta == IF status = "processing" THEN (100 - progress) * 2 ELSE 0
            IN [base EXCEPT !.code = 200, !.status = status, !.progress = progress,
                            !.step = step, !.eta = eta]

\* The body of the 200 answer of get_job_result, from the stored result.
ResultPayload(result) ==
    IF Len(result) = 0 \/ result[1].status = "error"
    THEN [summary |-> Plain(EmptyText), transcript |-> EmptyText, visualCaptions |-> <<>>]
    ELSE [summary |-> result[1].final_summary,
          transcript |-> result[1].audio_transcription,
          visualCaptions |-> result[1].frame_captions]

\* get_job_result answering from the live cache while the entry is present,
\* as get_job_status does.
GetJobResultFromCache(user_id, job_id) ==
    LET job == SelectJob(job_id, user_id)
        base == [NoResp EXCEPT !.kind = "result", !.user = user_id, !.job = job_id]
    IN IF Len(job) = 0
       THEN [base EXCEPT !.code = 404]
       ELSE IF job_id \in DOMAIN jobs /\ jobs[job_id].status # "done"
            THEN [base EXCEPT !.code = 400]
            ELSE IF job_id \in DOMAIN jobs
                 THEN [base EXCEPT !.code = 200,
                                   !.payload = <<ResultPayload(jobs[job_id].result)>>]
                 ELSE IF job[1].status # "done"
                      THEN [base EXCEPT !.code = 400]
                      ELSE [base EXCEPT !.code = 200,
                                        !.payload = <<ResultPayload(job[1].result)>>]

\* GET /videos/result/<job_id>
GetJobResult(user_id, job_id) ==
    LET job == SelectJob(job_id, user_id)
        base == [NoResp EXCEPT !.kind = "result", !.user = user_id, !.job = job_id]
    IN IF Len(job) = 0
       THEN [base EXCEPT !.code = 404]
       ELSE IF job[1].status # "done"
            THEN [base EXCEPT !.code = 400]
            ELSE [base EXCEPT !.code = 200,
                              !.payload = <<ResultPayload(job[1].result)>>]

get_job_status(user, j) ==
    /\ resp' = Brief(GetJobStatus(user, j))
    /\ UNCHANGED <<jobs, db, files, wk, groq_client, gemini_model, nextId, everDone,
                 users, schema, pure>>

get_job_result(user, j) ==
    /\ resp' = Brief(GetJobResult(user, j))
    /\ UNCHANGED <<jobs, db, files, wk, groq_client, gemini_model, nextId, everDone,
                 users, schema, pure>>

\* ------------------------------------------------------------- restart
\* The process stops and starts again: the module-level dict is empty, the
\* daemon threads are gone, the database file and the upload folder remain.
Restart ==
    /\ jobs' = <<>>
    /\ schema' = Ran(InitDb(schema.tables))
    /\ wk' = [j \in JobIds |->
                 IF wk[j].pc = "none" THEN wk[j] ELSE [NoWorker EXCEPT !.pc = "dead"]]
    /\ UNCHANGED <<db, files, groq_client, gemini_model, nextId, resp, everDone,
                 users, pure>>

\* The next-state relation, for requests whose target lengths are drawn from
\* Lengths, audio tracks from Audio and provider calls from Outcomes.
NextWith(Lengths, Audio, Outcomes) ==
    \/ \E j \in JobIds : Worker(j, Audio, Outcomes)
    \/ \E user \in Users : upload_video(user, Lengths)
    \/ \E user \in Users : summarize_from_url(user, Lengths)
    \/ \E user \in Users, j \in JobIds : get_job_status(user, j)
    \/ \E user \in Users, j \in JobIds : get_job_result(user, j)
    \/ Restart

\* Any number of jobs up to MaxJobs, interleaved; every request asks for no
\* target length, no video has an audio track, every provider call answers.
Next == NextWith({0}, {"absent"}, {"text"})

Spec == Init /\ [][Next]_vars

\* One job, with every target length, audio track and provider outcome.
InitOne ==
    /\ jobs = <<>>
    /\ db = <<>>
    /\ files = <<>>
    /\ wk = [j \in JobIds |-> NoWorker]
    /\ groq_client \in BOOLEAN
    /\ gemini_model \in BOOLEAN
    /\ nextId = MaxJobs
    /\ resp = Brief(NoResp)
    /\ everDone = {}
    /\ users = [u \in Users |-> "p0"]
    /\ schema = [tables |-> InitDb(<<>>).tables, raised |-> FALSE]
    /\ pure = Idle

NextOne == NextWith(TargetLengths, AudioOutcomes, ProviderOutcomes)

SpecOne == InitOne /\ [][NextOne]_vars

\* ------------------------------------------------------------- status answers
\* get_job_status with the whole answer kept in `resp`.
get_job_status_answer(user, j) ==
    /\ resp' = GetJobStatus(user, j)
    /\ UNCHANGED <<jobs, db, files, wk, groq_client, gemini_model, nextId, everDone,
                   users, schema, pure>>

\* One job, its worker, restarts, and status queries whose answers are kept.
NextStatus ==
    \/ \E j \in JobIds : Worker(j, {"absent"}, {"text"})
    \/ \E user \in Users : upload_video(user, {0})
    \/ \E user \in Users : summarize_from_url(user, {0})
    \/ \E user \in Users, j \in JobIds : get_job_status_answer(user, j)
    \/ Restart

SpecStatus == InitOne /\ [][NextStatus]_vars

\* ------------------------------------------------------------- fair scheduling
\* One job whose worker thread, once started by threading.Thread(...).start()
\* (lines 391-396, 507-512), is scheduled again as long as it has a statement
\* left to run; the process is not stopped.
NextFair ==
    \/ \E j \in JobIds : Worker(j, {"absent"}, {"text"})
    \/ \E user \in Users : upload_video(user, {0})
    \/ \E user \in Users : summarize_from_url(user, {0})
    \/ \E user \in Users, j \in JobIds : get_job_status(user, j)

SpecFair ==
    /\ InitOne
    /\ [][NextFair]_vars
    /\ \A j \in JobIds : WF_vars(Worker(j, {"absent"}, {"text"}))

\* ------------------------------------------------------------- profile
\* The values of (expertise, summary_preferences) a users row takes.
Profiles == {"p0", "p1"}

\* PUT /user/profile: the request names no field (400), only fields that are
\* not part of the profile handed to the composer, or new values for those.
update_profile(user) ==
    /\ \E fields \in {"none", "name", "expertise"} :
          IF fields = "none"
          THEN /\ resp' = SubmitResp("profile", user, 0, 400)
               /\ users' = users
          ELSE /\ resp' = SubmitResp("profile", user, 0, 200)
               /\ IF fields = "expertise"
                  THEN \E profile \in Profiles : users' = [users EXCEPT ![user] = profile]
                  ELSE users' = users
    /\ UNCHANGED <<jobs, db, files, wk, groq_client, gemini_model, nextId, everDone,
                   schema, pure>>

\* One job and the profile updates of the users, interleaved.
NextProfile ==
    \/ NextWith({0}, {"absent"}, {"text"})
    \/ \E user \in Users : update_profile(user)

SpecProfile == InitOne /\ [][NextProfile]_vars

\* ------------------------------------------------------------- schema setup alone
\* The steps that run schema statements: the start of the server (init_db at
\* import, line 60) and the two submission handlers.
NextSchema ==
    \/ \E user \in Users : upload_video(user, {0})
    \/ \E user \in Users : summarize_from_url(user, {0})
    \/ Restart

SpecSchema == Init /\ [][NextSchema]_vars

\* ------------------------------------------------------------- the composer alone
\* Calls of the functions of video_processor.py on inputs of their own; the
\* call and what it returned are kept in `pure`.  The functions keep nothing
\* from one call to the next, so a behaviour makes one call.
Called(fn, in, out) ==
    /\ pure.fn = "idle"
    /\ pure' = [fn |-> fn, in |-> in, out |-> out]
    /\ UNCHANGED <<jobs, db, files, wk, groq_client, gemini_model, nextId, resp,
                   everDone, users, schema>>

trim_summary ==
    \E raw \in RawTexts, n \in TargetLengths :
        Called("trim", <<raw, n>>, TrimText(raw, n))

generate_summary ==
    \E audio \in AudioOutcomes, n \in TargetLengths,
       groqOut \in ProviderOutcomes, geminiOut \in ProviderOutcomes :
        Called("generate_summary", <<audio, n, groqOut, geminiOut>>,
               [calls |-> ProviderCalls(groqOut, geminiOut),
                summary |-> GenerateSummary(Transcription(audio),
                                            AnalyzeVisualContent(ExtractKeyframes("ok")),
                                            n, groqOut, geminiOut)])

get_summary_prompt ==
    \E style \in StyleValues, format_type \in FormatValues :
        Called("get_summary_prompt", <<style, format_type>>,
               GetSummaryPrompt(style, format_type))

extract_keyframes ==
    \E total_frames \in 0..MaxTotalFrames, num_frames \in 0..MaxNumFrames :
        \E readable \in SUBSET (0..(total_frames - 1)) :
            Called("extract_keyframes", <<total_frames, num_frames, readable>>,
                   [indices |-> FrameIndices(total_frames, num_frames),
                    frames |-> ReadFrames(total_frames, num_frames, readable)])

\* extract_keyframes and then analyze_visual_content on the frames it returned
\* (process_video, lines 439 and 452).
analyze_visual_content ==
    \E total_frames \in 0..MaxTotalFrames, num_frames \in 0..MaxNumFrames :
        \E readable \in SUBSET (0..(total_frames - 1)) :
            LET frames == ReadFrames(total_frames, num_frames, readable)
            IN Called("analyze_visual_content", <<total_frames, num_frames, readable>>,
                      [frames |-> frames, captions |-> AnalyzeVisualContent(frames),
                       ocr_texts |-> OcrTexts(frames)])

process_video ==
    \E kind \in VideoKinds, audio \in AudioOutcomes, n \in TargetLengths,
       groqOut \in ProviderOutcomes, geminiOut \in ProviderOutcomes :
        Called("process_video", <<kind, audio, n, groqOut, geminiOut>>,
               ProcessVideo(kind, audio, n, groqOut, geminiOut))

NextPure ==
    \/ trim_summary
    \/ process_video
    \/ extract_keyframes
    \/ analyze_visual_content
    \/ get_summary_prompt
    \/ generate_summary

SpecPure == Init /\ [][NextPure]_vars

\* ------------------------------------------------------------- claims
Terminal == {"done", "failed"}

Owner(j) == IF j \in DOMAIN db THEN db[j].user_id ELSE jobs[j].user_id

Exists(j) == j \in DOMAIN db \/ j \in DOMAIN jobs

\* One step of a status along queued -> processing -> done, or
\* queued/processing -> failed (a store that is not written per stage may
\* pass from queued to done at once).
AllowedStep(s, t) ==
    \/ s = t
    \/ s = "queued" /\ t \in {"processing", "done", "failed"}
    \/ s = "processing" /\ t \in {"done", "failed"}

\* C1: in the live cache and in the durable store a job's status moves only
\* along queued -> processing -> done or queued/processing -> failed; once
\* it is done or failed it never changes again, whatever write or file
\* removal fails.
C1_StatusOnlyMovesForward ==
    [][\A j \in JobIds :
          /\ (j \in DOMAIN jobs /\ j \in DOMAIN jobs')
                => AllowedStep(jobs[j].status, jobs'[j].status)
          /\ (j \in DOMAIN db /\ j \in DOMAIN db')
                => AllowedStep(db[j].status, db'[j].status)]_vars

IsErrorStep(step) ==
    step \in {ErrorStep("Could not open video"), ErrorStep("database write failed"),
              ErrorStep("file removal failed"), ErrorStep("")}

\* C2: a job whose video cannot be opened or yields no decodable frame is
\* never done, in the live cache or the durable store, and its worker leaves
\* it failed with the reason in the step label.
C2_UndecodableVideoFails ==
    \A j \in DOMAIN files :
        files[j] \in {"unopenable", "noframes"} =>
            /\ j \in DOMAIN jobs => jobs[j].status # "done"
            /\ j \in DOMAIN db => db[j].status # "done"
            /\ (wk[j].pc = "finished" /\ j \in DOMAIN jobs) =>
                   jobs[j].status = "failed" /\ IsErrorStep(jobs[j].step)

\* C3: a result is stored only with status done: a durable row with a
\* non-null result has status done, and a live entry carrying a result has
\* status done.
C3_ResultOnlyWhenDone ==
    \A j \in JobIds :
        /\ (j \in DOMAIN db /\ Len(db[j].result) > 0) => db[j].status = "done"
        /\ (j \in DOMAIN jobs /\ Len(jobs[j].result) > 0) => jobs[j].status = "done"

\* C4: once a job's durable row has been written done, every status query by
\* its owner answers status done with etaSeconds 0, with or without a live
\* entry.
C4_DoneStaysDone ==
    \A j \in everDone :
        LET r == GetJobStatus(db[j].user_id, j)
        IN r.code = 200 /\ r.status = "done" /\ r.eta = 0

\* C5: no job has a live entry and a durable row in different terminal
\* states.
C5_NoContradictoryTerminalStates ==
    \A j \in JobIds :
        (j \in DOMAIN jobs /\ j \in DOMAIN db
         /\ jobs[j].status \in Terminal /\ db[j].status \in Terminal)
            => jobs[j].status = db[j].status

NotFound(kind, user, j) ==
    [NoResp EXCEPT !.kind = kind, !.user = user, !.job = j, !.code = 404]

\* C6: a status query or a result query for a job by a user who does not own
\* it answers 404 and nothing else, in every state of the job, with or
\* without a live entry.
C6_ForeignQueryNotFound ==
    /\ \A j \in JobIds, user \in Users :
          (Exists(j) /\ user # Owner(j)) =>
              /\ GetJobStatus(user, j) = NotFound("status", user, j)
              /\ GetJobResult(user, j) = NotFound("result", user, j)
    /\ (resp.kind \in {"status", "result"} /\ Exists(resp.job)
        /\ resp.user # Owner(resp.job)) => resp.code = 404

C6_Witness ==
    \E j \in DOMAIN db :
        /\ db[j].status = "done" /\ Len(db[j].result) > 0
        /\ j \in DOMAIN jobs /\ jobs[j].status = "done"
        /\ resp.kind = "status" /\ resp.job = j /\ resp.user # db[j].user_id
        /\ resp.code = 404

\* C7: a result query by the owner answers 200 with the payload of the
\* durable result exactly when the durable status is done, and 400 in every
\* other durable status, whatever the live cache holds.
C7_ResultFromDurableStore ==
    \A j \in DOMAIN db :
        LET r == GetJobResult(db[j].user_id, j)
        IN IF db[j].status = "done"
           THEN r.code = 200 /\ r.payload = <<ResultPayload(db[j].result)>>
           ELSE r.code = 400 /\ r.payload = <<>>

C7_Witness ==
    \E j, k \in DOMAIN db :
        /\ j \notin DOMAIN jobs /\ db[j].status = "done"
        /\ resp = Brief(GetJobResult(db[j].user_id, j)) /\ resp.code = 200
        /\ k \in DOMAIN jobs /\ jobs[k].status = "done" /\ db[k].status = "queued"

\* C8: the live progress is between 0 and 100 and every live entry with
\* status done has progress 100.
C8_ProgressPinnedWhenDone ==
    \A j \in DOMAIN jobs :
        /\ jobs[j].progress \in 0..100
        /\ jobs[j].status = "done" => jobs[j].progress = 100

\* C8, second part: the live progress never decreases.
C8_ProgressNeverDecreases ==
    [][\A j \in JobIds :
          (j \in DOMAIN jobs /\ j \in DOMAIN jobs')
              => jobs'[j].progress >= jobs[j].progress]_vars

\* C9: when the worker has finished, the media file is gone if the job ended
\* done and is still there if the job ended failed.
C9_MediaFileFollowsOutcome ==
    \A j \in JobIds :
        wk[j].pc = "finished" =>
            /\ jobs[j].status \in Terminal
            /\ jobs[j].status = "done" => j \notin DOMAIN files
            /\ jobs[j].status = "failed" => j \in DOMAIN files

C9_Witness ==
    \E j, k \in JobIds :
        /\ wk[j].pc = "finished" /\ jobs[j].status = "done" /\ j \notin DOMAIN files
        /\ wk[k].pc = "finished" /\ jobs[k].status = "failed" /\ k \in DOMAIN files
        /\ jobs[k].step = ErrorStep("file removal failed")

SummaryOk(result) ==
    (Len(result) > 0 /\ result[1].status = "completed") =>
        /\ NonEmpty(result[1].final_summary)
        /\ (~groq_client /\ ~gemini_model) =>
               result[1].final_summary =
                   Plain(<<"This", "video", "presents", "content", "covering",
                           "multiple", "aspects.">>
                         \o (IF result[1].audio_transcription \in
                                   {SpeechText, NoSpeech, TranscriptionFailed}
                             THEN <<"Audio", "narration", "discusses:">>
                                  \o result[1].audio_transcription \o <<"...">>
                             ELSE <<>>)
                         \o <<"Visually", "shows:">>
                         \o Take(VisualScenes(result[1].frame_captions), 3))

\* C10: a video whose frames were extracted never makes process_video raise,
\* and the results its job is marked done with, in the worker, the live
\* entry and the durable row, hold a non-empty final summary whatever the
\* providers did; with no provider configured the summary is the fixed
\* template over the transcription and the first three scenes.
C10_SummaryNeverEmpty ==
    \A j \in JobIds :
        /\ SummaryOk(wk[j].results)
        /\ j \in DOMAIN jobs => SummaryOk(jobs[j].result)
        /\ j \in DOMAIN db => SummaryOk(db[j].result)
        /\ (j \in DOMAIN files /\ files[j] = "ok") =>
               ~(wk[j].pc \in {"l317", "l318", "l321"}
                 /\ wk[j].exc = "Could not open video")
        /\ (wk[j].pc = "l298" /\ j \in DOMAIN files /\ files[j] = "ok") =>
               Len(wk[j].results) > 0 /\ wk[j].results[1].status = "completed"

C10_Witness ==
    \E j \in DOMAIN db :
        /\ ~groq_client /\ ~gemini_model
        /\ db[j].status = "done" /\ Len(db[j].result) > 0
        /\ db[j].result[1].status = "completed"
        /\ db[j].result[1].audio_transcription = SpeechText
        /\ NonEmpty(db[j].result[1].final_summary)

\* C11: for a summary of w words and a target n >= 1, the trim returns the
\* first n words joined by single spaces and then "..." when w > n, and the
\* summary as it was, spacing included, when w <= n.
C11_Truncation ==
    (pure.fn = "trim" /\ pure.in[2] >= 1) =>
        LET raw == pure.in[1]
            n == pure.in[2]
            words == Split(raw)
            out == pure.out
        IN IF Len(words) > n
           THEN /\ Len(out) = 2 * n
                /\ \A k \in 1..n : out[2 * k - 1] = words[k]
                /\ \A k \in 1..(n - 1) : out[2 * k] = " "
                /\ out[2 * n] = "..."
           ELSE out = raw

C11_Witness ==
    /\ pure.fn = "trim"
    /\ pure.in[2] = 2
    /\ pure.in[1] = <<"a", "\n", "b", " ", "a">>
    /\ pure.out = <<"a", " ", "b", "...">>

\* C12: every job that is done with a requested target of n >= 1 words has a
\* final summary of at most n words before the ellipsis marker, whichever
\* source the summary came from.
C12_DoneSummaryWithinTarget ==
    \A j \in DOMAIN jobs :
        (/\ jobs[j].status = "done"
         /\ jobs[j].n >= 1
         /\ Len(jobs[j].result) = 1
         /\ jobs[j].result[1].status = "completed")
        => Len(jobs[j].result[1].final_summary.words) <= jobs[j].n

\* The same for the jobs whose summary came out of generate_summary.
C12_ComposedSummaryWithinTarget ==
    \A j \in DOMAIN jobs :
        (/\ groq_client \/ gemini_model
         /\ jobs[j].status = "done"
         /\ jobs[j].n >= 1
         /\ Len(jobs[j].result) = 1
         /\ jobs[j].result[1].status = "completed")
        => Len(jobs[j].result[1].final_summary.words) <= jobs[j].n

\* C13: generate_summary asks the primary provider first; it asks the secondary
\* one only if the primary is not configured, raised or returned empty text;
\* it uses its template only if neither returned text; and the summary it
\* keeps is the text of the first provider, in that order, that returned some.
C13_ProviderOrder ==
    (pure.fn = "generate_summary") =>
        LET n == pure.in[2]
            groqOk == groq_client /\ pure.in[3] = "text"
            geminiOk == gemini_model /\ pure.in[4] = "text"
            calls == pure.out.calls
            summary == pure.out.summary
            template == TrimSummary(FallbackSummary(Transcription(pure.in[1]),
                                                    <<"street", "market">>), n)
        IN /\ calls \in {<<>>, <<"groq">>, <<"gemini">>, <<"groq", "gemini">>}
           /\ (groq_client => Len(calls) > 0 /\ calls[1] = "groq")
           /\ ((\E i \in 1..Len(calls) : calls[i] = "gemini") => gemini_model /\ ~groqOk)
           /\ (summary = template => ~groqOk /\ ~geminiOk)
           /\ (groqOk => summary = TrimSummary(GroqText, n))
           /\ (~groqOk /\ geminiOk => summary = TrimSummary(GeminiText, n))
           /\ (~groqOk /\ ~geminiOk => summary = template)

\* Both providers are configured and both return text: the primary's is kept
\* and the secondary is not asked.
C13_Witness ==
    /\ pure.fn = "generate_summary"
    /\ groq_client /\ gemini_model
    /\ pure.in[3] = "text" /\ pure.in[4] = "text"
    /\ pure.out.calls = <<"groq">>
    /\ pure.out.summary.words = GroqText

\* C14: get_summary_prompt answers for every style and format value and never
\* raises: the template is the one of the style when the style is one of the
\* six known ones and the default template otherwise; the format instruction
\* is the one of the format when it is one of the five known ones and the
\* paragraph instruction otherwise.
C14_PromptSelectionTotal ==
    (pure.fn = "get_summary_prompt") =>
        LET style == pure.in[1]
            format_type == pure.in[2]
            knownStyle == style \in {"default", "professional", "commercial",
                                     "educational", "casual", "technical"}
            knownFormat == format_type \in {"paragraph", "bullet", "timeline",
                                            "chapters", "highlights"}
        IN /\ ~pure.out.raised
           /\ pure.out.template = BasePrompts[IF knownStyle THEN style ELSE "default"]
           /\ pure.out.format_instruction =
                  FormatInstructions[IF knownFormat THEN format_type ELSE "paragraph"]
           /\ (pure.out.template = BasePrompts["default"] <=> (~knownStyle \/ style = "default"))
           /\ (pure.out.format_instruction = FormatInstructions["paragraph"]
                  <=> (~knownFormat \/ format_type = "paragraph"))

\* An unknown style with an unknown format.
C14_Witness ==
    /\ pure.fn = "get_summary_prompt"
    /\ pure.in = <<"foo", "bullets">>
    /\ pure.out.template[1] = "expert video summarizer"
    /\ pure.out.format_instruction = "Write a flowing narrative summary in paragraph form."

\* C15: for a video of T >= 1 frames and a requested count n >= 1 the sampled
\* positions are strictly increasing, lie in 0..T-1 and number min(n, T); they
\* are 0..T-1 in order when T < n, and the i-th is floor(i*T/n), i counted
\* from 0, when T >= n.
C15_FrameSampling ==
    (pure.fn = "extract_keyframes" /\ pure.in[1] >= 1 /\ pure.in[2] >= 1) =>
        LET T == pure.in[1]
            n == pure.in[2]
            idx == pure.out.indices
        IN /\ Len(idx) = (IF n < T THEN n ELSE T)
           /\ \A i \in 1..Len(idx) : idx[i] \in 0..(T - 1)
           /\ \A i \in 1..(Len(idx) - 1) : idx[i] < idx[i + 1]
           /\ (T < n => \A i \in 1..Len(idx) : idx[i] = i - 1)
           /\ (T >= n => \A i \in 1..Len(idx) :
                            /\ idx[i] * n <= (i - 1) * T
                            /\ (i - 1) * T < (idx[i] + 1) * n)

\* Five frames, three requested: positions 0, 1 and 3.
C15_Witness ==
    /\ pure.fn = "extract_keyframes"
    /\ pure.in[1] = 5 /\ pure.in[2] = 3
    /\ pure.out.indices = <<0, 1, 3>>

\* Fewer frames than requested: all of them, once each.
C15_WitnessShortVideo ==
    /\ pure.fn = "extract_keyframes"
    /\ pure.in[1] = 2 /\ pure.in[2] = 3
    /\ pure.out.indices = <<0, 1>>

\* C16: when extract_keyframes returned at least as many frames as were
\* requested, analyze_visual_content gives exactly that many captions, the
\* k-th labelled frame k and describing the frame at the k-th sampled position.
C16_CaptionsFollowFrames ==
    (pure.fn = "analyze_visual_content" /\ Len(pure.out.frames) >= pure.in[2]) =>
        LET T == pure.in[1]
            n == pure.in[2]
            captions == pure.out.captions
        IN /\ Len(captions) = n
           /\ \A k \in 1..n :
                 /\ captions[k].frame = k
                 /\ captions[k].scene = CaptionFrame(FrameAt(FrameIndices(T, n)[k]))

\* Five frames, three requested, every read succeeds.
C16_Witness ==
    /\ pure.fn = "analyze_visual_content"
    /\ pure.in[1] = 5 /\ pure.in[2] = 3
    /\ Len(pure.out.frames) = 3
    /\ pure.out.captions = <<[frame |-> 1, scene |-> "street"],
                             [frame |-> 2, scene |-> "market"],
                             [frame |-> 3, scene |-> "harbour"]>>

\* C17: for a video whose frames are extracted, process_video does not raise
\* and completes when the audio track is absent or the extraction or the
\* transcription fails, its transcription then being one of the fixed
\* placeholders; without an audio track it is the no-audio-track placeholder.
C17_AudioNeverFails ==
    (pure.fn = "process_video" /\ pure.in[1] = "ok" /\ pure.in[2] # "speech") =>
        /\ ~pure.out.raised
        /\ pure.out.results.status = "completed"
        /\ pure.out.results.audio_transcription \in
               {NoAudioTrack, NoAudioContent, NoSpeech, TranscriptionFailed}
        /\ NonEmpty(pure.out.results.final_summary)
        /\ (pure.in[2] = "absent" => pure.out.results.audio_transcription = NoAudioTrack)

\* The transcription raises inside transcribe_audio.
C17_Witness ==
    /\ pure.fn = "process_video"
    /\ pure.in[1] = "ok"
    /\ pure.in[2] = "transcribe_error"
    /\ pure.out.results.status = "completed"
    /\ pure.out.results.audio_transcription = TranscriptionFailed

\* In the job: a worker is in its `except` branch only because the video did
\* not open, the database write failed or the file could not be removed.
C17_JobFailsForOtherReasons ==
    \A j \in JobIds :
        wk[j].exc \in {"", "Could not open video", "database write failed",
                       "file removal failed"}

\* A job without an audio track is done.
C17_WitnessDoneWithoutAudio ==
    \E j \in DOMAIN jobs :
        /\ jobs[j].status = "done"
        /\ Len(jobs[j].result) = 1
        /\ jobs[j].result[1].status = "completed"
        /\ jobs[j].result[1].audio_transcription = NoAudioTrack

\* C18: a submission answered 400 (no file, empty filename, no URL, failed
\* download) creates no job: the step that gives the answer adds no live
\* entry and no durable row, starts no worker and draws no job identifier.
C18_RejectedCreatesNoJob ==
    [][(/\ resp' # resp
        /\ resp'.kind \in {"upload", "from-url"}
        /\ resp'.code = 400)
       => (/\ jobs' = jobs
           /\ db' = db
           /\ wk' = wk
           /\ nextId' = nextId)]_vars

\* A from-url request has been refused and there is no job.
C18_Witness ==
    /\ resp.kind = "from-url"
    /\ resp.code = 400
    /\ resp.job = 0
    /\ jobs = <<>>
    /\ db = <<>>
    /\ \A j \in JobIds : wk[j].pc = "none"

\* C19: however often init_db and the add-column migration run, no statement
\* raises out of them, the database holds the tables users and jobs once each
\* with the columns a single run gives them (summary_format at most once), and
\* the rows that exist stay as they are.
C19_SchemaIdempotent ==
    /\ [](/\ ~schema.raised
          /\ Len(schema.tables) = 2
          /\ schema.tables[1] = [name |-> "users", columns |-> UsersColumns]
          /\ schema.tables[2].name = "jobs"
          /\ schema.tables[2].columns \in
                 {JobsColumns, JobsColumns \o <<"summary_format">>})
    /\ [][\A j \in DOMAIN db : j \in DOMAIN db' /\ db'[j] = db[j]]_vars

\* Two submissions have run the migration twice, a restart has run init_db
\* again, and the row of the first job is still there.
C19_Witness ==
    /\ nextId = MaxJobs + 1
    /\ \E j \in JobIds : wk[j].pc = "dead"
    /\ 1 \in DOMAIN db
    /\ schema.tables[2].columns = JobsColumns \o <<"summary_format">>
    /\ ~schema.raised

\* C20: the profile a job's summary is composed with is the one read when the
\* job was submitted: the worker starts with the profile the users table held
\* at the submission, no later step changes what the worker holds, and
\* process_video is called with it whatever the table holds by then.
C20_ProfileSnapshot ==
    [][\A j \in JobIds :
          /\ (wk[j].pc = "none" /\ wk'[j].pc = "l282")
                => wk'[j].user_profile = users[jobs'[j].user_id]
          /\ (wk[j].pc \notin {"none", "dead"} /\ wk'[j].pc # "dead")
                => wk'[j].user_profile = wk[j].user_profile
          /\ (wk[j].pc = "l287" /\ wk'[j].pc \in {"l298", "l317"})
                => wk'[j].composed_with = wk[j].user_profile]_vars

\* The owner changed the profile after submitting, and the summary was
\* composed with the profile of the submission.
C20_Witness ==
    \E j \in DOMAIN jobs :
        /\ jobs[j].status = "done"
        /\ wk[j].pc = "finished"
        /\ wk[j].user_profile = "p0"
        /\ wk[j].composed_with = "p0"
        /\ users[jobs[j].user_id] = "p1"

\* A step of the worker thread of job j.
WorkerStep(j) ==
    /\ wk[j].pc \notin {"none", "dead", "finished"}
    /\ wk'[j] # wk[j]
    /\ wk'[j].pc # "dead"

Untouched(k) ==
    /\ wk'[k] = wk[k]
    /\ (k \in DOMAIN jobs) = (k \in DOMAIN jobs')
    /\ (k \in DOMAIN jobs => jobs'[k] = jobs[k])
    /\ (k \in DOMAIN db) = (k \in DOMAIN db')
    /\ (k \in DOMAIN db => db'[k] = db[k])
    /\ (k \in DOMAIN files) = (k \in DOMAIN files')
    /\ (k \in DOMAIN files => files'[k] = files[k])

\* C21: a worker is started for a job identifier once, by the submission that
\* drew the identifier, and a step of the worker of one job, its failure
\* included, leaves the live entry, the durable row, the media file and the
\* worker of every other job as they were.
C21_WorkersKeepToTheirJob ==
    [][\A j \in JobIds :
          /\ (wk'[j].pc = "l282" /\ wk[j].pc # "l282")
                => (wk[j].pc = "none" /\ j = nextId /\ nextId' = nextId + 1
                    /\ j \notin DOMAIN db /\ j \notin DOMAIN jobs)
          /\ WorkerStep(j) => \A k \in JobIds \ {j} : Untouched(k)]_vars

\* One job has failed while the other is still being processed.
C21_Witness ==
    \E j \in JobIds, k \in JobIds :
        /\ j # k
        /\ wk[j].pc = "finished"
        /\ j \in DOMAIN jobs /\ jobs[j].status = "failed"
        /\ wk[k].pc = "l287"
        /\ k \in DOMAIN jobs /\ jobs[k].status = "processing"

\* The stages in the order the pipeline names them.
StageOrder ==
    <<"extract_keyframes", "extract_audio", "transcribe_audio",
      "analyze_visual_content", "final_summary">>

StagePosition(stage) == CHOOSE i \in 1..Len(StageOrder) : StageOrder[i] = stage

\* The stages a job ran are in the fixed order, frame extraction first.
C22_StagesInOrder ==
    \A j \in JobIds :
        LET stages == wk[j].stages
        IN /\ \A i \in 1..(Len(stages) - 1) :
                 StagePosition(stages[i]) < StagePosition(stages[i + 1])
           /\ (Len(stages) > 0 => stages[1] = "extract_keyframes")

\* C22: the stages of a job run one after the other in the order frame
\* extraction, audio extraction and transcription, captioning of the frames,
\* summary composition, and a job is marked done only after its summary
\* composition has completed.
C22_DoneAfterComposition ==
    /\ C22_StagesInOrder
    /\ \A j \in DOMAIN jobs :
          jobs[j].status = "done" =>
              /\ Len(wk[j].stages) > 0
              /\ wk[j].stages[Len(wk[j].stages)] = "final_summary"

\* Across jobs: the job submitted second is done while the first is not.
C22_WitnessAnyCompletionOrder ==
    /\ 1 \in DOMAIN jobs /\ jobs[1].status = "processing"
    /\ 2 \in DOMAIN jobs /\ jobs[2].status = "done" /\ wk[2].pc = "finished"

Running(j) == wk[j].pc \notin {"none", "dead", "finished"}

\* C23: the step that answers 202 for a job leaves it queued with progress 0
\* in the live cache and in the durable store, with its worker at its first
\* statement; and no worker runs for a job that has no live entry or no row.
C23_RecordedBeforeWorker ==
    /\ [](\A j \in JobIds : Running(j) => (j \in DOMAIN jobs /\ j \in DOMAIN db))
    /\ [][(resp' # resp /\ resp'.code = 202) =>
            LET j == resp'.job
            IN /\ wk[j].pc = "none" /\ wk'[j].pc = "l282"
               /\ j \notin DOMAIN jobs /\ j \notin DOMAIN db
               /\ jobs'[j].status = "queued" /\ jobs'[j].progress = 0
               /\ db'[j].status = "queued" /\ db'[j].progress = 0
               /\ db'[j].user_id = jobs'[j].user_id]_vars

C23_Witness ==
    /\ resp.code = 202
    /\ resp.job \in DOMAIN jobs /\ jobs[resp.job].status = "queued"
    /\ resp.job \in DOMAIN db /\ db[resp.job].status = "queued"
    /\ wk[resp.job].pc = "l282"

\* A step that is a status query and nothing else.
StatusQueryStep ==
    /\ resp'.kind = "status"
    /\ UNCHANGED <<jobs, db, files, wk, nextId>>

\* C24: a status query by the owner of a job that has a durable row is
\* answered 200 with the status, progress and step of the live entry when
\* there is one, and with those of the row when there is none.
C24_StatusPrefersLiveCache ==
    [][StatusQueryStep =>
         LET j == resp'.job
         IN (j \in DOMAIN db /\ db[j].user_id = resp'.user) =>
               /\ resp'.code = 200
               /\ IF j \in DOMAIN jobs
                  THEN /\ resp'.status = jobs[j].status
                       /\ resp'.progress = jobs[j].progress
                       /\ resp'.step = jobs[j].step
                  ELSE /\ resp'.status = db[j].status
                       /\ resp'.progress = db[j].progress
                       /\ resp'.step = db[j].step]_vars

\* The owner is told processing from the live entry while the row says queued.
C24_Witness ==
    /\ resp.kind = "status" /\ resp.code = 200
    /\ resp.status = "processing" /\ resp.progress = 10
    /\ resp.job \in DOMAIN jobs /\ jobs[resp.job].status = "processing"
    /\ db[resp.job].status = "queued"

\* After a restart the owner is told what the row says.
C24_WitnessAfterRestart ==
    /\ resp.kind = "status" /\ resp.code = 200
    /\ resp.job \notin DOMAIN jobs
    /\ resp.job \in DOMAIN db /\ resp.status = db[resp.job].status
    /\ wk[resp.job].pc = "dead"

\* The row as the submission inserted it.
AsInserted(row) ==
    /\ row.status = "queued"
    /\ row.progress = 0
    /\ row.step = "Queued"
    /\ row.result = <<>>

\* C25: from the insert at submission until the worker's terminal write the
\* durable row of a job stays queued, progress 0, step Queued, result null,
\* whatever the live entry says; no row ever has status processing.
C25_RowUntouchedWhileProcessing ==
    \A j \in DOMAIN db :
        /\ db[j].status \in {"queued", "done", "failed"}
        /\ (wk[j].pc \in {"l282", "l283", "l284", "l287", "l298", "l299", "l300",
                           "l301", "l306"}) => AsInserted(db[j])
        /\ (wk[j].pc \in {"l317", "l318", "l321"} /\ wk[j].exc # "file removal failed")
              => AsInserted(db[j])

\* The live entry is done with its result and the row is still as inserted.
C25_Witness ==
    \E j \in DOMAIN db :
        /\ wk[j].pc = "l306"
        /\ jobs[j].status = "done" /\ jobs[j].progress = 100
        /\ Len(jobs[j].result) = 1
        /\ AsInserted(db[j])

\* "Error: r" for the reasons a worker can hold.
ErrorLabel(r) ==
    CASE r = "Could not open video" -> "Error: Could not open video"
      [] r = "database write failed" -> "Error: database write failed"
      [] r = "file removal failed" -> "Error: file removal failed"

C27_FileDeletedOnlyAfterCommit ==
    \A j \in DOMAIN db :
        /\ (j \notin DOMAIN files) =>
               /\ db[j].status = "done"
               /\ db[j].progress = 100
               /\ Len(db[j].result) = 1
               /\ j \in everDone
        /\ (db[j].status = "done") => (Len(db[j].result) = 1 /\ db[j].progress = 100)

\* The process stopped between the durable write and the removal: the row is
\* done with its result and the file is still there.
C27_Witness ==
    \E j \in DOMAIN db :
        /\ wk[j].pc = "dead"
        /\ db[j].status = "done" /\ Len(db[j].result) = 1
        /\ j \in DOMAIN files

\* The file was removed, and the process stopped afterwards.
C27_WitnessRemoved ==
    \E j \in DOMAIN db :
        /\ wk[j].pc = "dead"
        /\ db[j].status = "done" /\ Len(db[j].result) = 1
        /\ j \notin DOMAIN files

\* ---- C28 ----
Range(seq) == {seq[i] : i \in 1..Len(seq)}

OnScreenTexts(frames) == UNION {Range(ExtractTextFromFrame(frames[i])) : i \in 1..Len(frames)}

\* C28, the captions: visual analysis over N frames returns exactly N caption
\* records, record i being the caption of frame i.
C28_OneCaptionPerFrame ==
    pure.fn = "analyze_visual_content" =>
        /\ Len(pure.out.captions) = Len(pure.out.frames)
        /\ \A i \in 1..Len(pure.out.frames) :
               pure.out.captions[i] = [frame |-> i, scene |-> CaptionFrame(pure.out.frames[i])]
        /\ Range(pure.out.ocr_texts) = OnScreenTexts(pure.out.frames)

\* C28: visual analysis over N frames returns exactly N caption records in
\* frame order, and its on-screen-text collection holds every text read on some
\* frame exactly once, also a text read on two frames.
C28_OcrTextsDeduplicated ==
    pure.fn = "analyze_visual_content" =>
        /\ Len(pure.out.captions) = Len(pure.out.frames)
        /\ \A i \in 1..Len(pure.out.frames) :
               pure.out.captions[i] = [frame |-> i, scene |-> CaptionFrame(pure.out.frames[i])]
        /\ Range(pure.out.ocr_texts) = OnScreenTexts(pure.out.frames)
        /\ \A a, b \in 1..Len(pure.out.ocr_texts) :
               pure.out.ocr_texts[a] = pure.out.ocr_texts[b] => a = b

\* Two frames showing the same text were analysed.
C28_WitnessSameTextTwice ==
    /\ pure.fn = "analyze_visual_content"
    /\ \E a, b \in 1..Len(pure.out.frames) :
           /\ a # b
           /\ Range(ExtractTextFromFrame(pure.out.frames[a]))
                  \cap Range(ExtractTextFromFrame(pure.out.frames[b])) # {}

\* ---- C29 ----
\* The last request was a status query that the owner got answered with 200.
StatusAnswered ==
    /\ resp.kind = "status" /\ resp.code = 200
    /\ resp.job \in JobIds

\* C29: a status query running between any two live-cache assignments of the
\* job's worker never answers done with a progress other than 100 or a step
\* other than "Complete", and never answers processing with progress 0.
C29_StatusAnswerConsistent ==
    StatusAnswered =>
        /\ resp.status = "done" => (resp.progress = 100 /\ resp.step = "Complete")
        /\ resp.status = "processing" => resp.progress # 0

\* C29, the answers taken once the worker has made its last live-cache
\* assignment: done comes with progress 100 and the step "Complete".
C29_SettledAnswerConsistent ==
    (StatusAnswered /\ wk[resp.job].pc \in {"finished", "l306", "l313"}
        /\ resp = GetJobStatus(resp.user, resp.job))
        => (resp.status = "done" => (resp.progress = 100 /\ resp.step = "Complete"))

\* A status query answered while the worker stood between its assignments of
\* the status and of the progress.
C29_WitnessQueryBetweenAssignments ==
    /\ StatusAnswered
    /\ wk[resp.job].pc \in {"l283", "l299"}
    /\ resp = GetJobStatus(resp.user, resp.job)

\* ---- C30 ----
Started(j) == wk[j].pc = "l282"

\* C30, the live cache: every job whose worker has started eventually has a
\* terminal status in the live cache, with its worker at its end.
C30_LiveEventuallyTerminal ==
    \A j \in JobIds :
        Started(j) ~> (wk[j].pc = "finished" /\ j \in DOMAIN jobs
                          /\ jobs[j].status \in Terminal)

\* C30: every job whose worker has started eventually has a terminal status
\* (done or failed) both in the live cache and in its durable row.
C30_EventuallyTerminalInBoth ==
    \A j \in JobIds :
        Started(j) ~> (/\ j \in DOMAIN jobs /\ jobs[j].status \in Terminal
                       /\ j \in DOMAIN db /\ db[j].status \in Terminal)

\* C30, the durable row: a worker at its end has left a terminal durable row
\* unless the UPDATE of its except branch raised.
C30_DurableTerminalUnlessLastWriteFails ==
    [][\A j \in JobIds :
          (wk'[j].pc = "finished" /\ wk[j].pc # "finished"
              /\ ~(wk[j].pc = "l321" /\ db' = db))
          => db'[j].status \in Terminal]_vars

\* A worker that has ended with its job still queued in the durable store.
C30_WitnessEndedWithQueuedRow ==
    \E j \in JobIds :
        /\ wk[j].pc = "finished"
        /\ jobs[j].status = "failed"
        /\ db[j].status = "queued"

\* ---- C31 ----
ResultCode(user, j) == GetJobResult(user, j).code

\* C31: once a status query of the owner has been answered done, a result
\* query of the same owner for the job is answered 200 and not 400, at that
\* moment and at every later one, wherever the worker stands.
C31_ResultAfterDoneStatus ==
    /\ [](StatusAnswered /\ resp.status = "done"
             => ResultCode(resp.user, resp.job) = 200)
    /\ [][\A user \in Users, j \in JobIds :
             ResultCode(user, j) = 200 => ResultCode(user, j)' = 200]_vars

\* C31, once the worker has ended with the job done in the live cache: the
\* result query is answered 200.
C31_ResultAfterWorkerEnd ==
    \A j \in JobIds :
        (wk[j].pc = "finished" /\ j \in DOMAIN jobs /\ jobs[j].status = "done")
            => ResultCode(jobs[j].user_id, j) = 200

\* A status query answered done while the durable row is still queued.
C31_WitnessDoneBeforeCommit ==
    /\ StatusAnswered /\ resp.status = "done"
    /\ resp = GetJobStatus(resp.user, resp.job)
    /\ wk[resp.job].pc \in {"l299", "l300", "l301", "l306"}
    /\ ResultCode(resp.user, resp.job) = 400

\* ---- C32 ----
\* What a status answer shows of a job.
Shown(answer) == <<answer.code, answer.status, answer.progress, answer.step>>

Ended(j) == wk[j].pc = "finished" /\ j \in DOMAIN jobs

\* C32: after a job's worker has finished, in done or in failed, the live
\* entry and the durable row agree on status, progress and step, so that the
\* owner's status query is answered alike before and after a restart.
C32_LiveAndDurableAgree ==
    /\ [](\A j \in JobIds :
             Ended(j) => /\ jobs[j].status = db[j].status
                         /\ jobs[j].progress = db[j].progress
                         /\ jobs[j].step = db[j].step)
    /\ [][\A j \in JobIds :
             (Ended(j) /\ j \notin DOMAIN jobs')
                 => Shown(GetJobStatus(db[j].user_id, j)')
                        = Shown(GetJobStatus(db[j].user_id, j))]_vars

\* C32 for the jobs that ended done: the two stores agree and the status
\* answer is the same after a restart.
C32_DoneJobsAgree ==
    /\ [](\A j \in JobIds :
             (Ended(j) /\ jobs[j].status = "done")
                 => /\ jobs[j].status = db[j].status
                    /\ jobs[j].progress = db[j].progress
                    /\ jobs[j].step = db[j].step)
    /\ [][\A j \in JobIds :
             (Ended(j) /\ jobs[j].status = "done" /\ j \notin DOMAIN jobs')
                 => Shown(GetJobStatus(db[j].user_id, j)')
                        = Shown(GetJobStatus(db[j].user_id, j))]_vars

\* A job that ended failed with every durable write committed: the live entry
\* holds the progress reached, the row the progress of the insert.
C32_WitnessFailedProgressDiffers ==
    \E j \in JobIds :
        /\ Ended(j) /\ jobs[j].status = "failed" /\ db[j].status = "failed"
        /\ jobs[j].step = db[j].step
        /\ jobs[j].progress = 10 /\ db[j].progress = 0

\* ---- C33 ----
\* C33: once a submission request has returned, with 202 or with an error,
\* also after a failed insert, every job id in the live cache has a durable
\* row with the same id and owner.
C33_LiveEntriesHaveRows ==
    \A j \in DOMAIN jobs :
        j \in DOMAIN db /\ db[j].user_id = jobs[j].user_id

\* C33 for the accepted submissions: a live entry whose submission was
\* answered 202 has a durable row with the same id and owner, and a live entry
\* that has a row has the owner of the row.
C33_AcceptedEntriesHaveRows ==
    /\ \A j \in DOMAIN jobs :
           j \in DOMAIN db => db[j].user_id = jobs[j].user_id
    /\ \A j \in JobIds :
           wk[j].pc \notin {"none", "dead"} => (j \in DOMAIN jobs /\ j \in DOMAIN db)
    /\ (resp.kind \in {"upload", "url"} /\ resp.code = 202 /\ resp.job \in DOMAIN jobs)
           => resp.job \in DOMAIN db

\* A submission answered 500 after its insert failed, its entry still in the
\* live cache.
C33_WitnessEntryWithoutRow ==
    /\ resp.kind \in {"upload", "url"} /\ resp.code = 500
    /\ \E j \in DOMAIN jobs : j \notin DOMAIN db

====
